---------------------------- MODULE Spec2Model ----------------------------
(***************************************************************************)
(* Session countdown / synchronisation logic of the ChikuAI desktop main   *)
(* process (class ChikuDesktopApp).  Every action is one macrotask of the  *)
(* single-threaded event loop: an IPC handler, the 1-second interval       *)
(* callback, a window callback, or the arrival of an HTTP response that    *)
(* resumes the awaiting async function.  The microtask continuations that  *)
(* run inside the same macrotask are part of the action.                   *)
(*                                                                         *)
(* Time is counted in whole seconds (Date.now() / 1000).                   *)
(***************************************************************************)
EXTENDS Integers, Sequences, FiniteSets, TLC

\* ------------------------------------------------------------------ bounds
Horizon == 62           \* seconds of wall-clock time explored after boot
MaxStall == 1           \* seconds that may pass while no interval is armed
MaxEvents == 3          \* user-driven requests (start, end, logout, login, close)
MaxInFlight == 2        \* HTTP requests awaiting their response
MaxLatency == 2         \* seconds within which a request is answered or fails
MaxBalance == 1         \* largest balance (minutes) the gateway reports
BootTime == 30          \* value of the clock when the model starts

\* ------------------------------------------------------- program constants
SecondsPerMinute == 60      \* "* 60", "/ 60"
SyncIntervalSeconds == 30   \* timeSinceSync >= 30000 ms
FreeDefaultMinutes == 10    \* fallback for the free tier
PaidDefaultMinutes == 0     \* fallback for any other tier
MinMinutesToSend == 1       \* Math.max(1, elapsedMinutes)

MaxTime == BootTime + Horizon
Null == 0                   \* null session identifier
NoTime == 0 - 1             \* null sessionStartTime
Absent == 0 - 1000          \* key deleted from the store

Balances == (0 - 1)..MaxBalance
Users == {"nouser", "free", "paid", "malformed"}

\* What a response says: res is "ok" (2xx with the expected body; bal is the
\* balance it reports), "nouse" (2xx without success/user), "fail" (the
\* request rejects), and for the other endpoints the name of the outcome.
Outcome(res, bal) == [res |-> res, bal |-> bal]
NoArg == Outcome("", 0)
BalanceOutcomes ==
    {Outcome("fail", 0), Outcome("nouse", 0)} \cup {Outcome("ok", b) : b \in Balances}
CreateOutcomes == {Outcome(x, 0) : x \in {"fail", "noid", "id"}}
UpdateOutcomes == {Outcome(x, 0) : x \in {"ok", "fail"}}
FinalOutcomes == {Outcome(x, 0) : x \in {"ok", "403", "401", "neterr"}}

Max(a, b) == IF a >= b THEN a ELSE b

VARIABLES
    now,                      \* Date.now() in seconds
    user,                     \* store 'user': kind of the stored token
    cachedRemainingMinutes,   \* store 'cachedRemainingMinutes'
    mainWindow,               \* "none" | "dash" | "overlay"
    isInterviewMode,
    windowReadyForIPC,
    currentSessionId,
    sessionStartTime,
    sessionTimer,             \* TRUE when this.sessionTimer holds an interval
    timerSessionId,
    sessionStartingMinutes,
    currentRemainingSeconds,
    lastServerSyncTime,
    intervals,                \* number of intervals armed in the event loop
    domReadyPending,          \* the overlay window has not fired dom-ready yet
    timeouts,                 \* pending setTimeout(…, 100) callbacks
    net,                      \* HTTP requests in flight
    events,                   \* user-driven requests so far
    op,                       \* the macrotask that ran last
    out,                      \* what that macrotask did: gateway calls, messages
    finalCalls,               \* finalize calls made so far for currentSessionId
    ticks,                    \* decrements made by the interval armed last
    budget,                   \* currentRemainingSeconds when it was armed
    budgetFrom,               \* what wrote sessionStartingMinutes last
    fallbackTier              \* the tier the fallback of the last start used

vars == <<now, user, cachedRemainingMinutes, mainWindow,
          isInterviewMode, windowReadyForIPC, currentSessionId,
          sessionStartTime, sessionTimer, timerSessionId,
          sessionStartingMinutes, currentRemainingSeconds,
          lastServerSyncTime, intervals, domReadyPending, timeouts, net,
          events, op, out, finalCalls, ticks, budget, budgetFrom,
          fallbackTier>>

\* The whole state as one record, so that the methods of the class can be
\* written as functions from state to state.
St ==
    [now |-> now, user |-> user,
     cachedRemainingMinutes |-> cachedRemainingMinutes,
     mainWindow |-> mainWindow, isInterviewMode |-> isInterviewMode,
     windowReadyForIPC |-> windowReadyForIPC,
     currentSessionId |-> currentSessionId,
     sessionStartTime |-> sessionStartTime, sessionTimer |-> sessionTimer,
     timerSessionId |-> timerSessionId,
     sessionStartingMinutes |-> sessionStartingMinutes,
     currentRemainingSeconds |-> currentRemainingSeconds,
     lastServerSyncTime |-> lastServerSyncTime, intervals |-> intervals,
     domReadyPending |-> domReadyPending, timeouts |-> timeouts, net |-> net,
     events |-> events, op |-> op, out |-> out,
     finalCalls |-> finalCalls, ticks |-> ticks, budget |-> budget,
     budgetFrom |-> budgetFrom, fallbackTier |-> fallbackTier]

Apply(s) ==
    /\ now' = s.now
    /\ user' = s.user
    /\ cachedRemainingMinutes' = s.cachedRemainingMinutes
    /\ mainWindow' = s.mainWindow
    /\ isInterviewMode' = s.isInterviewMode
    /\ windowReadyForIPC' = s.windowReadyForIPC
    /\ currentSessionId' = s.currentSessionId
    /\ sessionStartTime' = s.sessionStartTime
    /\ sessionTimer' = s.sessionTimer
    /\ timerSessionId' = s.timerSessionId
    /\ sessionStartingMinutes' = s.sessionStartingMinutes
    /\ currentRemainingSeconds' = s.currentRemainingSeconds
    /\ lastServerSyncTime' = s.lastServerSyncTime
    /\ intervals' = s.intervals
    /\ domReadyPending' = s.domReadyPending
    /\ timeouts' = s.timeouts
    /\ net' = s.net
    /\ events' = s.events
    /\ op' = s.op
    /\ out' = s.out
    /\ finalCalls' = s.finalCalls
    /\ ticks' = s.ticks
    /\ budget' = s.budget
    /\ budgetFrom' = s.budgetFrom
    /\ fallbackTier' = s.fallbackTier

\* A macrotask begins: remember which one, forget the previous one's output.
Begin(s, name) == [s EXCEPT !.op = name, !.out = <<>>]

Emit(s, e) == [s EXCEPT !.out = Append(@, e)]

\* ------------------------------------------------------------ HTTP requests
\* A gateway call: the endpoint, the sessionId and minutesUsed of its body,
\* the time of the call and whether a request went out.  A request in flight
\* has n as well, which tells identical requests apart.
\*   "user"     GET  /api/desktop-user
\*   "create"   POST /api/desktop-sessions/create
\*   "realtime" POST /api/desktop-sessions/update-realtime
\*   "update"   POST /api/desktop-sessions/update   (fallback of the sync)
\*   "final"    POST /api/desktop-sessions/update   (status: 'completed')
\* The status in the body of a request: updateSessionMinutes writes
\* status: 'completed' whatever ended the session; no other body has one.
StatusSent(kind) == IF kind = "final" THEN "completed" ELSE ""

Req(kind, sid, mins) ==
    [kind |-> kind, sid |-> sid, mins |-> mins, status |-> StatusSent(kind),
     at |-> 0, sent |-> FALSE]

Copies(s, r) ==
    Cardinality({q \in s.net : /\ q.kind = r.kind /\ q.sid = r.sid
                               /\ q.mins = r.mins /\ q.at = r.at})

\* app.isPackaged: the model is of the packaged build.  (In a development
\* build a token that does not decode is sent as it is, and the gateway
\* rejects it: the behaviour of a free-tier user whose requests fail.)
IsPackaged == TRUE

\* getAuthToken: the stored token, or null.  In a packaged build a token
\* that does not decode deletes the user and the cached balance.
TokenInvalid(s) == IsPackaged /\ s.user = "malformed"

HasToken(s) == s.user # "nouser" /\ ~TokenInvalid(s)

GetAuthToken(s) ==
    IF TokenInvalid(s)
    THEN [s EXCEPT !.user = "nouser", !.cachedRemainingMinutes = Absent]
    ELSE s

\* A call of makeAuthenticatedRequest, as the macrotask's output records it.
Called(s, r, sent) ==
    LET t == Emit(s, [r EXCEPT !.at = s.now, !.sent = sent])
    IN  IF r.kind = "final" THEN [t EXCEPT !.finalCalls = @ + 1] ELSE t

\* makeAuthenticatedRequest with a token, up to request.end(): the request
\* is on the wire and the caller is suspended at its await.
Send(s, r) ==
    LET q == [kind |-> r.kind, sid |-> r.sid, mins |-> r.mins, at |-> s.now,
              n |-> Copies(s, [r EXCEPT !.at = s.now]) + 1]
    IN  [Called(s, r, TRUE) EXCEPT !.net = @ \cup {q}]

\* Mutant: the request goes out although no token was found.
RefusedSendsAnyway(s, r) == Send(s, r)

\* makeAuthenticatedRequest without a token: 'User not authenticated' is
\* thrown before any request is made.
Refused(s, r) == GetAuthToken(Called(s, r, FALSE))

\* uuidv4(), and the identifier the gateway issues: an identifier that
\* nothing refers to.  Identifiers are opaque, so the model takes the smallest
\* one that is neither held by the controller nor named by a request in flight.
InUse(s) == {s.currentSessionId, s.timerSessionId} \cup {q.sid : q \in s.net}

FreshId(s) == CHOOSE i \in 1..(Cardinality(InUse(s)) + 1) : i \notin InUse(s)

\* this.currentSessionId = id (the count of finalize requests is per identifier).
SetSessionId(s, id) == [s EXCEPT !.currentSessionId = id, !.finalCalls = 0]

\* user?.subscriptionTier || extractSubscriptionTier(user?.token): the stored
\* user object carries no subscriptionTier, the tier is the token's claim.
ExtractSubscriptionTier(s) == IF s.user = "paid" THEN "paid" ELSE "free"

\* Number(x) || 0 on a store value.
NumberOr0(x) == IF x = Absent THEN 0 ELSE x

\* ------------------------------------------------------------------- timer
ClearSessionTimer(s) ==
    [s EXCEPT !.intervals = IF s.sessionTimer THEN @ - 1 ELSE @,
              !.sessionTimer = FALSE,
              !.timerSessionId = Null,
              !.currentRemainingSeconds = 0,
              !.lastServerSyncTime = 0,
              !.ticks = 0,
              !.budget = 0]

\* Mutant: the countdown of every tier starts from sessionStartingMinutes.
InitializeCountdownFromStartingMinutes(s) ==
    [s EXCEPT !.currentRemainingSeconds =
                  s.sessionStartingMinutes * SecondsPerMinute,
              !.lastServerSyncTime = s.now]

InitializeCountdown(s) ==
    [s EXCEPT !.currentRemainingSeconds =
                  IF ExtractSubscriptionTier(s) = "free"
                  THEN s.sessionStartingMinutes * SecondsPerMinute
                  ELSE NumberOr0(s.cachedRemainingMinutes) * SecondsPerMinute,
              !.lastServerSyncTime = s.now]

\* Mutant: startSessionTimer arms its interval without clearing the old one.
StartSessionTimerNoClear(s) ==
    LET a == InitializeCountdown(s)
    IN  [a EXCEPT !.timerSessionId = a.currentSessionId,
                  !.sessionTimer = TRUE,
                  !.intervals = @ + 1,
                  !.ticks = 0,
                  !.budget = a.currentRemainingSeconds]

\* startSessionTimer up to and including setInterval.
StartSessionTimer(s) ==
    LET a == InitializeCountdown(ClearSessionTimer(s))
    IN  [a EXCEPT !.timerSessionId = a.currentSessionId,
                  !.sessionTimer = TRUE,
                  !.intervals = @ + 1,
                  !.budget = a.currentRemainingSeconds]

\* ------------------------------------------------------- ending a session
RECURSIVE EndCurrentSession(_)
RECURSIVE TransformToDashboardMode(_)

\* Mutant: a finalize call that failed with anything but a 403 keeps the
\* session, for the next tick to try again.
EndSessionTailKeepOnError(s) ==
    IF s.op.name = "FinalResponse" /\ s.op.arg.res \in {"401", "neterr"}
    THEN s
    ELSE TransformToDashboardMode(
             [SetSessionId(ClearSessionTimer(s), Null)
                  EXCEPT !.sessionStartTime = NoTime])

\* endCurrentSession after the await of updateSessionMinutes, which swallows
\* every error of the request.
EndSessionTail(s) ==
    TransformToDashboardMode(
        [SetSessionId(ClearSessionTimer(s), Null) EXCEPT !.sessionStartTime = NoTime])

\* With a session identifier but no start time the two methods call each
\* other until the stack overflows; the RangeError rejects the promise of the
\* innermost endCurrentSession and every frame returns: nothing has changed.
CallsForever(s) ==
    /\ s.mainWindow # "none"
    /\ s.isInterviewMode
    /\ s.currentSessionId # Null
    /\ s.sessionStartTime = NoTime

\* Mutant: the whole minutes elapsed, with no floor of one minute.
MinutesToSendUnfloored(s) == (s.now - s.sessionStartTime) \div SecondsPerMinute

MinutesToSend(s) ==
    Max(MinMinutesToSend, (s.now - s.sessionStartTime) \div SecondsPerMinute)

\* Mutant: the guard of endCurrentSession looks at the identifier only.
EndCurrentSessionIdOnly(s) ==
    IF s.currentSessionId # Null
    THEN LET r == Req("final", s.currentSessionId, MinutesToSend(s))
         IN  IF HasToken(s) THEN Send(s, r) ELSE EndSessionTail(Refused(s, r))
    ELSE TransformToDashboardMode(s)

EndCurrentSession(s) ==
    IF s.currentSessionId # Null /\ s.sessionStartTime # NoTime
    THEN LET r == Req("final", s.currentSessionId, MinutesToSend(s))
         IN  IF HasToken(s) THEN Send(s, r) ELSE EndSessionTail(Refused(s, r))
    ELSE IF CallsForever(s)
         THEN Emit(s, [kind |-> "RangeError"])
         ELSE TransformToDashboardMode(s)

TransformToDashboardMode(s) ==
    IF s.mainWindow = "none" \/ ~s.isInterviewMode
    THEN s
    ELSE IF s.currentSessionId # Null
         THEN EndCurrentSession(s)
         ELSE [ClearSessionTimer(s) EXCEPT !.mainWindow = "dash",
                                           !.domReadyPending = FALSE,
                                           !.isInterviewMode = FALSE]

\* ------------------------------------------------------ starting a session
\* Mutant: a start whose create call gave no identifier drops the session.
AfterCreateOnlineOnly(s, outcome) ==
    LET a == IF outcome.res = "id"
             THEN SetSessionId(s, FreshId(s))
             ELSE SetSessionId(s, Null)
        b == ClearSessionTimer(a)
    IN  IF b.mainWindow = "none"
        THEN Emit(b, [kind |-> "TypeError"])
        ELSE [b EXCEPT !.mainWindow = "overlay",
                       !.domReadyPending = TRUE,
                       !.isInterviewMode = TRUE]

\* transformToInterviewMode from the POST .../create response (or its
\* failure) to the end of the method.  With no window left getBounds()
\* throws a TypeError and the rest of the method is skipped.
AfterCreate(s, outcome) ==
    LET a == IF outcome.res = "id"
             THEN SetSessionId(s, FreshId(s))
             ELSE s
        b == ClearSessionTimer(a)
    IN  IF b.mainWindow = "none"
        THEN Emit(b, [kind |-> "TypeError"])
        ELSE [b EXCEPT !.mainWindow = "overlay",
                       !.domReadyPending = TRUE,
                       !.isInterviewMode = TRUE]

\* Mutant: the fetched balance is cached for every tier.
AfterFetchCachesAll(s, outcome) ==
    LET a == IF outcome.res = "fail"
             THEN [s EXCEPT !.sessionStartingMinutes =
                                IF ExtractSubscriptionTier(s) = "free"
                                THEN FreeDefaultMinutes ELSE PaidDefaultMinutes,
                            !.budgetFrom = "fallback",
                            !.fallbackTier = ExtractSubscriptionTier(s)]
             ELSE IF outcome.res = "nouse"
             THEN s
             ELSE [s EXCEPT !.sessionStartingMinutes = outcome.bal,
                            !.budgetFrom = "fetch",
                            !.cachedRemainingMinutes = outcome.bal]
        r == Req("create", Null, 0)
    IN  IF HasToken(a)
        THEN Send(a, r)
        ELSE AfterCreate(Refused(a, r), Outcome("fail", 0))

\* transformToInterviewMode from the GET /api/desktop-user response (or its
\* failure) to the await of the create request.
AfterFetch(s, outcome) ==
    LET a == IF outcome.res = "fail"
             THEN [s EXCEPT !.sessionStartingMinutes =
                                IF ExtractSubscriptionTier(s) = "free"
                                THEN FreeDefaultMinutes ELSE PaidDefaultMinutes,
                            !.budgetFrom = "fallback",
                            !.fallbackTier = ExtractSubscriptionTier(s)]
             ELSE IF outcome.res = "nouse"
             THEN s
             ELSE [s EXCEPT !.sessionStartingMinutes = outcome.bal,
                            !.budgetFrom = "fetch",
                            !.cachedRemainingMinutes =
                                IF ExtractSubscriptionTier(s) # "free"
                                THEN outcome.bal ELSE @]
        r == Req("create", Null, 0)
    IN  IF HasToken(a)
        THEN Send(a, r)
        ELSE AfterCreate(Refused(a, r), Outcome("fail", 0))

TransformToInterviewMode(s) ==
    IF s.mainWindow = "none" \/ s.isInterviewMode
    THEN s
    ELSE LET a == [SetSessionId(s, FreshId(s)) EXCEPT !.sessionStartTime = s.now,
                                                      !.fallbackTier = "none"]
             r == Req("user", Null, 0)
         IN  IF HasToken(a)
             THEN Send(a, r)
             ELSE AfterFetch(Refused(a, r), Outcome("fail", 0))

\* ---------------------------------------------------------------- the sync
\* Mutant: a sync that failed stops the countdown.
SyncFailedStopsTimer(s) == ClearSessionTimer(s)

\* The catch of syncWithServer.
SyncFailed(s) == [s EXCEPT !.lastServerSyncTime = s.now]

\* Mutant: the sync reports zero minutes instead of skipping.
SyncWithServerNoSkip(s) ==
    IF s.sessionStartTime = NoTime
    THEN SyncFailed(s)
    ELSE LET minutesUsedSoFar == (s.now - s.sessionStartTime) \div SecondsPerMinute
             r == Req("realtime", s.currentSessionId, minutesUsedSoFar)
         IN  IF HasToken(s) THEN Send(s, r) ELSE SyncFailed(Refused(s, r))

SyncWithServer(s) ==
    IF s.sessionStartTime = NoTime
    THEN SyncFailed(s)
    ELSE LET minutesUsedSoFar == (s.now - s.sessionStartTime) \div SecondsPerMinute
             r == Req("realtime", s.currentSessionId, minutesUsedSoFar)
         IN  IF minutesUsedSoFar <= 0
             THEN [s EXCEPT !.lastServerSyncTime = s.now]
             ELSE IF HasToken(s) THEN Send(s, r) ELSE SyncFailed(Refused(s, r))

\* Mutant: the reported balance refreshes the cache and never ends the session.
AfterRealtimeNoEnd(s, r, outcome) ==
    IF outcome.res = "fail"
    THEN SyncFailed(s)
    ELSE IF outcome.res = "nouse"
    THEN LET u == Req("update", s.currentSessionId, r.mins)
         IN  IF HasToken(s) THEN Send(s, u) ELSE SyncFailed(Refused(s, u))
    ELSE [s EXCEPT !.cachedRemainingMinutes = outcome.bal,
                   !.lastServerSyncTime = s.now]

\* syncWithServer from the update-realtime response on; r is the request.
AfterRealtime(s, r, outcome) ==
    IF outcome.res = "fail"
    THEN SyncFailed(s)
    ELSE IF outcome.res = "nouse"
    THEN LET u == Req("update", s.currentSessionId, r.mins)
         IN  IF HasToken(s) THEN Send(s, u) ELSE SyncFailed(Refused(s, u))
    ELSE LET a == [s EXCEPT !.cachedRemainingMinutes = outcome.bal]
         IN  IF outcome.bal <= 0
             THEN EndCurrentSession(a)
             ELSE [a EXCEPT !.lastServerSyncTime = s.now]

\* syncWithServer from the response of the fallback update on.
AfterUpdate(s) == [s EXCEPT !.lastServerSyncTime = s.now]

\* ----------------------------------------------------- the interval callback
\* Number.prototype.toString of a natural number: its decimal digits.
DigitChars == <<"0", "1", "2", "3", "4", "5", "6", "7", "8", "9">>

RECURSIVE NumberToString(_)
NumberToString(n) ==
    IF n < Len(DigitChars)
    THEN <<DigitChars[n + 1]>>
    ELSE NumberToString(n \div Len(DigitChars)) \o <<DigitChars[(n % Len(DigitChars)) + 1]>>

\* String.prototype.padStart(2, '0')
PadStart2(str) == IF Len(str) < 2 THEN <<"0">> \o str ELSE str

\* Mutant: the seconds of the display are not padded.
DisplayUnpadded(remainingMinutes, remainingSecs) ==
    NumberToString(remainingMinutes) \o <<":">> \o NumberToString(remainingSecs)

\* `${remainingMinutes}:${remainingSecs.toString().padStart(2, '0')}`
Display(remainingMinutes, remainingSecs) ==
    NumberToString(remainingMinutes) \o <<":">> \o PadStart2(NumberToString(remainingSecs))

TimerData(s) ==
    [kind |-> "session-timer-update",
     type |-> ExtractSubscriptionTier(s),
     elapsed |-> (s.now - s.sessionStartTime) \div SecondsPerMinute,
     remaining |-> s.currentRemainingSeconds \div SecondsPerMinute,
     remainingSeconds |-> s.currentRemainingSeconds,
     secs |-> s.currentRemainingSeconds % SecondsPerMinute,
     display |-> Display(s.currentRemainingSeconds \div SecondsPerMinute,
                         s.currentRemainingSeconds % SecondsPerMinute)]

\* Mutant: the callback notifies the renderer without looking at the window.
AfterDecrementAnyWindow(a) ==
    LET b == Emit(a, TimerData(a))
    IN  IF b.currentRemainingSeconds <= 0
        THEN EndCurrentSession(b)
        ELSE IF b.now - b.lastServerSyncTime >= SyncIntervalSeconds
             THEN SyncWithServer(b)
             ELSE b

\* Mutant: the callback looks at the countdown before it notifies the renderer.
AfterDecrementEndFirst(a) ==
    IF a.windowReadyForIPC /\ a.mainWindow # "none"
    THEN IF a.currentRemainingSeconds <= 0
         THEN EndCurrentSession(a)
         ELSE LET b == Emit(a, TimerData(a))
              IN  IF b.now - b.lastServerSyncTime >= SyncIntervalSeconds
                  THEN SyncWithServer(b)
                  ELSE b
    ELSE a

\* The rest of the interval callback, after the countdown has been set.
AfterDecrement(a) ==
    IF a.windowReadyForIPC /\ a.mainWindow # "none"
    THEN LET b == Emit(a, TimerData(a))
         IN  IF b.currentRemainingSeconds <= 0
             THEN EndCurrentSession(b)
             ELSE IF b.now - b.lastServerSyncTime >= SyncIntervalSeconds
                  THEN SyncWithServer(b)
                  ELSE b
    ELSE a

\* Mutant: the callback does not check which session its timer belongs to.
TickBodyNoIdentityCheck(s) ==
    IF s.sessionStartTime # NoTime /\ s.currentSessionId # Null
    THEN AfterDecrement([s EXCEPT !.currentRemainingSeconds = Max(0, @ - 1),
                                  !.ticks = @ + 1])
    ELSE ClearSessionTimer(s)

\* Mutant: the callback computes the countdown from the time since the
\* session's start instead of counting its own calls.
TickBodyFromElapsed(s) ==
    IF s.timerSessionId # s.currentSessionId
    THEN ClearSessionTimer(s)
    ELSE IF s.sessionStartTime # NoTime /\ s.currentSessionId # Null
    THEN AfterDecrement(
             [s EXCEPT !.currentRemainingSeconds =
                           Max(0, s.sessionStartingMinutes * SecondsPerMinute
                                    - (s.now - s.sessionStartTime)),
                       !.ticks = @ + 1])
    ELSE ClearSessionTimer(s)

TickBody(s) ==
    IF s.timerSessionId # s.currentSessionId
    THEN ClearSessionTimer(s)
    ELSE IF s.sessionStartTime # NoTime /\ s.currentSessionId # Null
    THEN AfterDecrement([s EXCEPT !.currentRemainingSeconds = Max(0, @ - 1),
                                  !.ticks = @ + 1])
    ELSE ClearSessionTimer(s)

\* ------------------------------------------------------------------ actions
Op(name, arg) == [name |-> name, arg |-> arg]

\* One macrotask: s is the state it leaves.  The network holds at most
\* MaxInFlight requests.
Run(s) == Cardinality(s.net) <= MaxInFlight /\ Apply(s)

UserEvent(s, name, arg) == [Begin(s, Op(name, arg)) EXCEPT !.events = @ + 1]

\* The response for r arrives: r leaves the network.
Arrive(s, name, r, outcome) ==
    [Begin(s, Op(name, outcome)) EXCEPT !.net = @ \ {r}]

Newest(r) == r.n = Copies(St, r)

\* Time passes only while every request in flight is younger than MaxLatency.
TimePasses ==
    /\ now < MaxTime
    /\ \A r \in net : now - r.at < MaxLatency

\* The user makes at most MaxEvents requests.
UserActs == events < MaxEvents

Init ==
    /\ now = BootTime
    /\ user \in Users
    /\ cachedRemainingMinutes \in (IF user = "paid" THEN {0, MaxBalance} ELSE {0})
    /\ mainWindow = "dash"
    /\ isInterviewMode = FALSE
    /\ windowReadyForIPC = FALSE
    /\ currentSessionId = Null
    /\ sessionStartTime = NoTime
    /\ sessionTimer = FALSE
    /\ timerSessionId = Null
    /\ sessionStartingMinutes = 0
    /\ currentRemainingSeconds = 0
    /\ lastServerSyncTime = 0
    /\ intervals = 0
    /\ domReadyPending = FALSE
    /\ timeouts = 0
    /\ net = {}
    /\ events = 0
    /\ op = Op("Init", NoArg)
    /\ out = <<>>
    /\ finalCalls = 0
    /\ ticks = 0
    /\ budget = 0
    /\ budgetFrom = "init"
    /\ fallbackTier = "none"

\* ipcMain.handle('start-interview-session')
StartInterviewSession ==
    /\ UserActs
    /\ Run(TransformToInterviewMode(UserEvent(St, "StartInterviewSession", NoArg)))

\* ipcMain.handle('end-interview-session')
EndInterviewSession ==
    /\ UserActs
    /\ Run(TransformToDashboardMode(UserEvent(St, "EndInterviewSession", NoArg)))

\* Mutant: the cached balance survives the logout or the new login.
CancelAllKeepCache(s) ==
    ClearSessionTimer([SetSessionId(s, Null) EXCEPT
                           !.budgetFrom = "cancel",
                           !.sessionStartTime = NoTime,
                           !.sessionStartingMinutes = 0])

\* logout, and the session part of handleAuthCallback.
CancelAll(s) ==
    ClearSessionTimer([SetSessionId(s, Null) EXCEPT
                           !.budgetFrom = "cancel",
                           !.cachedRemainingMinutes = Absent,
                           !.sessionStartTime = NoTime,
                           !.sessionStartingMinutes = 0])

\* ipcMain.handle('logout')
Logout ==
    /\ UserActs
    /\ Run([CancelAll(UserEvent(St, "Logout", NoArg)) EXCEPT !.user = "nouser"])

\* handleAuthCallback for an auth/success URL
Login ==
    /\ UserActs
    /\ \E u \in Users \ {"nouser"} :
          Run([CancelAll(UserEvent(St, "Login", Outcome(u, 0))) EXCEPT !.user = u])

\* mainWindow.on('closed'): the user closes the window.
CloseWindow ==
    /\ UserActs
    /\ mainWindow # "none"
    /\ Run([UserEvent(St, "CloseWindow", NoArg) EXCEPT !.mainWindow = "none",
                                                     !.domReadyPending = FALSE])

\* webContents.once('dom-ready') of the overlay window: arms the 100 ms timeout.
DomReady ==
    /\ domReadyPending
    /\ mainWindow = "overlay"
    /\ Run([Begin(St, Op("DomReady", NoArg)) EXCEPT !.domReadyPending = FALSE,
                                                  !.timeouts = @ + 1])

\* The 100 ms timeout of the dom-ready callback.
StartTimeout ==
    /\ timeouts > 0
    /\ LET s == [Begin(St, Op("StartTimeout", NoArg)) EXCEPT !.timeouts = @ - 1]
       IN  Run(IF s.mainWindow # "none"
               THEN StartSessionTimer(
                        [Emit(s, [kind |-> "mode-changed",
                                  sessionId |-> s.currentSessionId,
                                  startTime |-> s.sessionStartTime])
                            EXCEPT !.windowReadyForIPC = TRUE])
               ELSE s)

\* The setInterval callback, one second after the previous one.
Tick ==
    /\ intervals > 0
    /\ TimePasses
    /\ Run(TickBody([Begin(St, Op("Tick", NoArg)) EXCEPT !.now = @ + 1]))

\* A second passes while no interval is armed and a session is starting.
Advance ==
    /\ intervals = 0
    /\ sessionStartTime # NoTime
    /\ now - sessionStartTime < MaxStall
    /\ TimePasses
    /\ Run([Begin(St, Op("Advance", NoArg)) EXCEPT !.now = @ + 1])

FetchResponse ==
    \E r \in net : \E o \in BalanceOutcomes :
        /\ r.kind = "user" /\ Newest(r)
        /\ Run(AfterFetch(Arrive(St, "FetchResponse", r, o), o))

CreateResponse ==
    \E r \in net : \E o \in CreateOutcomes :
        /\ r.kind = "create" /\ Newest(r)
        /\ Run(AfterCreate(Arrive(St, "CreateResponse", r, o), o))

RealtimeResponse ==
    \E r \in net : \E o \in BalanceOutcomes :
        /\ r.kind = "realtime" /\ Newest(r)
        /\ Run(AfterRealtime(Arrive(St, "RealtimeResponse", r, o), r, o))

UpdateResponse ==
    \E r \in net : \E o \in UpdateOutcomes :
        /\ r.kind = "update" /\ Newest(r)
        /\ Run(AfterUpdate(Arrive(St, "UpdateResponse", r, o)))

FinalResponse ==
    \E r \in net : \E o \in FinalOutcomes :
        /\ r.kind = "final" /\ Newest(r)
        /\ Run(EndSessionTail(Arrive(St, "FinalResponse", r, o)))

Next ==
    \/ StartInterviewSession
    \/ EndInterviewSession
    \/ Logout
    \/ Login
    \/ CloseWindow
    \/ DomReady
    \/ StartTimeout
    \/ Tick
    \/ Advance
    \/ FetchResponse
    \/ CreateResponse
    \/ RealtimeResponse
    \/ UpdateResponse
    \/ FinalResponse

Spec == Init /\ [][Next]_vars

\* ------------------------------------------- a session some minutes old
\* The second specification starts in a session that has been running for
\* one minute, or for LateMinutes minutes, less LateEarly seconds, and follows
\* it for LateHorizon seconds, across the minute: the state Spec would reach after that many
\* ticks of a free-tier session whose gateway calls have all been rejected at
\* once (the default of 10 minutes, the local identifier, the last sync
\* stamped at the last half minute, nothing cached).
LateMinutes == 3
LateEarly == 1
LateHorizon == 3

ElapsedAtInit == {m * SecondsPerMinute - LateEarly : m \in {1, LateMinutes}}

InitLate ==
    \E e \in ElapsedAtInit :
        LET left == FreeDefaultMinutes * SecondsPerMinute - e
        IN  /\ now = BootTime + e
            /\ user = "free"
            /\ cachedRemainingMinutes = 0
            /\ mainWindow = "overlay"
            /\ isInterviewMode = TRUE
            /\ windowReadyForIPC = TRUE
            /\ currentSessionId = 1
            /\ sessionStartTime = BootTime
            /\ sessionTimer = TRUE
            /\ timerSessionId = 1
            /\ sessionStartingMinutes = FreeDefaultMinutes
            /\ currentRemainingSeconds = left
            /\ lastServerSyncTime =
                   BootTime + (e \div SyncIntervalSeconds) * SyncIntervalSeconds
            /\ intervals = 1
            /\ domReadyPending = FALSE
            /\ timeouts = 0
            /\ net = {}
            /\ events = 0
            /\ op = Op("Tick", NoArg)
            /\ out = << [kind |-> "session-timer-update",
                         type |-> "free",
                         elapsed |-> e \div SecondsPerMinute,
                         remaining |-> left \div SecondsPerMinute,
                         remainingSeconds |-> left,
                         secs |-> left % SecondsPerMinute,
                         display |-> Display(left \div SecondsPerMinute,
                                             left % SecondsPerMinute)] >>
            /\ finalCalls = 0
            /\ ticks = e
            /\ budget = FreeDefaultMinutes * SecondsPerMinute
            /\ budgetFrom = "fallback"
            /\ fallbackTier = "free"

\* Time passes for LateHorizon seconds around each whole minute.
TimePassesLate ==
    /\ (now - BootTime + LateEarly) % SecondsPerMinute < LateHorizon
    /\ \A r \in net : now - r.at < MaxLatency

\* The setInterval callback, one second after the previous one.
TickLate ==
    /\ intervals > 0
    /\ TimePassesLate
    /\ Run(TickBody([Begin(St, Op("Tick", NoArg)) EXCEPT !.now = @ + 1]))

\* A second passes while no interval is armed and a session is starting.
AdvanceLate ==
    /\ intervals = 0
    /\ sessionStartTime # NoTime
    /\ now - sessionStartTime < MaxStall
    /\ TimePassesLate
    /\ Run([Begin(St, Op("Advance", NoArg)) EXCEPT !.now = @ + 1])

NextLate ==
    \/ StartInterviewSession
    \/ EndInterviewSession
    \/ Logout
    \/ Login
    \/ CloseWindow
    \/ DomReady
    \/ StartTimeout
    \/ TickLate
    \/ AdvanceLate
    \/ FetchResponse
    \/ CreateResponse
    \/ RealtimeResponse
    \/ UpdateResponse
    \/ FinalResponse

SpecLate == InitLate /\ [][NextLate]_vars

\* ------------------------------------------------------------------ claims
\* The vocabulary of the claims: what the last macrotask was and did.
GatewayKinds == {"user", "create", "realtime", "update", "final"}

\* The gateway calls among the outputs o of a macrotask, and those of one kind.
CallsIn(o) == {i \in DOMAIN o : o[i].kind \in GatewayKinds}

KindIn(o, kind) == {i \in DOMAIN o : o[i].kind = kind}

Did(name) == op.name = name

\* A session is active: it has an identifier and a start time.
SessionActive == currentSessionId # Null /\ sessionStartTime # NoTime

\* The controller is idle.
Idle ==
    /\ ~sessionTimer
    /\ intervals = 0
    /\ currentSessionId = Null
    /\ sessionStartTime = NoTime
    /\ currentRemainingSeconds = 0

\* The armed interval drives the current, active session.
LiveTimer ==
    /\ sessionTimer
    /\ timerSessionId = currentSessionId
    /\ SessionActive

\* The presentation window can be sent to.
WindowLive == windowReadyForIPC /\ mainWindow # "none"

Tier == ExtractSubscriptionTier(St)

\* The last macrotask armed the timer: the 100 ms timeout found a window, sent
\* 'mode-changed' and called startSessionTimer.
Armed == Did("StartTimeout") /\ KindIn(out, "mode-changed") # {} /\ sessionTimer

\* ---- C1
\* C1: for one session identifier the finalize call of endCurrentSession is
\* made at most once, whatever triggers endCurrentSession again while the
\* first call awaits its response.
C1_FinalizeAtMostOnce == finalCalls <= 1

C3_StaleTickChangesNothing ==
    [][(op'.name = "Tick" /\ timerSessionId # currentSessionId)
         => /\ out' = <<>>
            /\ net' = net
            /\ currentSessionId' = currentSessionId
            /\ sessionStartTime' = sessionStartTime
            /\ cachedRemainingMinutes' = cachedRemainingMinutes
            /\ currentRemainingSeconds' = currentRemainingSeconds
            /\ lastServerSyncTime' = lastServerSyncTime
            /\ ~sessionTimer']_vars

\* C3 (amended): a tick whose timer is bound to another identifier than the
\* current one makes no gateway call, emits no notification and leaves
\* sessionId, startTime, startingMinutes and the cached balance as they are;
\* it cancels the timer, which resets remainingSeconds, the last-sync time
\* and the timer's identifier.
C3_StaleTickOnlyCancels ==
    [][(op'.name = "Tick" /\ timerSessionId # currentSessionId)
         => /\ out' = <<>>
            /\ net' = net
            /\ currentSessionId' = currentSessionId
            /\ sessionStartTime' = sessionStartTime
            /\ sessionStartingMinutes' = sessionStartingMinutes
            /\ cachedRemainingMinutes' = cachedRemainingMinutes
            /\ ~sessionTimer' /\ intervals' = 0
            /\ timerSessionId' = Null
            /\ currentRemainingSeconds' = 0
            /\ lastServerSyncTime' = 0]_vars

\* A tick found its timer stale: the session is active and the tick left no
\* timer (a tick of the session's own timer never disarms it and leaves the
\* session active).
C3_Witness ==
    /\ Did("Tick")
    /\ SessionActive
    /\ ~sessionTimer
    /\ out = <<>>

\* ---- C4
\* C4 as stated: when the balance fetch failed, the countdown is armed with
\* 600 seconds for the free tier and 0 seconds for the paid tier.
C4_BudgetIsTierDefault ==
    (Armed /\ budgetFrom = "fallback")
        => currentRemainingSeconds =
               (IF Tier = "free" THEN FreeDefaultMinutes
                                 ELSE PaidDefaultMinutes) * SecondsPerMinute

\* C4 (amended): when the balance fetch fails the start goes on to the create
\* call with startingMinutes at the tier default (10 free, 0 paid); the
\* countdown is armed with 600 seconds for the free tier and with 60 times the
\* cached balance for the paid tier.
C4_FallbackBudget ==
    /\ ((Did("FetchResponse") /\ op.arg.res = "fail")
            \/ (\E i \in KindIn(out, "user") : ~out[i].sent))
           => /\ budgetFrom = "fallback"
              /\ sessionStartingMinutes =
                     (IF Tier = "free" THEN FreeDefaultMinutes ELSE PaidDefaultMinutes)
              /\ KindIn(out, "create") # {}
    /\ (Armed /\ budgetFrom = "fallback")
           => currentRemainingSeconds =
                  (IF Tier = "free"
                   THEN FreeDefaultMinutes
                   ELSE NumberOr0(cachedRemainingMinutes)) * SecondsPerMinute

\* A paid-tier session whose balance fetch failed is armed from the cache.
C4_Witness ==
    /\ Armed
    /\ LiveTimer
    /\ budgetFrom = "fallback"
    /\ Tier = "paid"
    /\ cachedRemainingMinutes = MaxBalance
    /\ currentRemainingSeconds = MaxBalance * SecondsPerMinute

\* ---- C5
\* C5: every update-realtime call carries minutesUsed >= 1 and is made 60
\* seconds or more after the session's start; a tick that comes earlier makes
\* no sync call at all.
C5_NoSyncBeforeOneMinute ==
    /\ \A i \in KindIn(out, "realtime") :
           /\ out[i].mins >= 1
           /\ sessionStartTime # NoTime
           /\ now - sessionStartTime >= SecondsPerMinute
           /\ out[i].mins = (now - sessionStartTime) \div SecondsPerMinute
    /\ (Did("Tick") /\ SessionActive /\ now - sessionStartTime < SecondsPerMinute)
           => KindIn(out, "realtime") = {}

\* A sync came due before a minute had passed and was skipped.
C5_Witness ==
    /\ Did("Tick")
    /\ LiveTimer
    /\ now - sessionStartTime < SecondsPerMinute
    /\ now - sessionStartTime >= SyncIntervalSeconds
    /\ lastServerSyncTime = now
    /\ currentRemainingSeconds > 0
    /\ CallsIn(out) = {}

\* ---- C6
\* C6: a free-tier timer is armed with 60 seconds for each of the session's
\* startingMinutes; with a live window each tick of a countdown of a minute or
\* more leaves it one lower, no tick before the last ends the session, and the
\* tick that brings it to 0 does.
C6_ExpiresAtLastTick ==
    /\ (Armed /\ Tier = "free")
           => /\ budget = sessionStartingMinutes * SecondsPerMinute
              /\ currentRemainingSeconds = budget
              /\ ticks = 0
    /\ (Did("Tick") /\ LiveTimer /\ WindowLive /\ budget >= SecondsPerMinute)
           => IF ticks < budget
              THEN /\ currentRemainingSeconds = budget - ticks
                   /\ KindIn(out, "final") = {}
              ELSE /\ currentRemainingSeconds = 0
                   /\ KindIn(out, "final") # {}

\* The 60th tick of a one-minute free-tier session.
C6_Witness ==
    /\ Did("Tick")
    /\ LiveTimer
    /\ Tier = "free"
    /\ budget = SecondsPerMinute
    /\ ticks = budget
    /\ currentRemainingSeconds = 0
    /\ Cardinality(KindIn(out, "final")) = 1

\* ---- C7
\* C7: when an update-realtime response reports a balance of 0 or less and a
\* session is active, endCurrentSession makes its finalize call on receipt,
\* whatever the countdown shows.
C7_SyncEndsSession ==
    [][(op'.name = "RealtimeResponse" /\ op'.arg.res = "ok" /\ op'.arg.bal <= 0
            /\ SessionActive)
         => /\ Cardinality(KindIn(out', "final")) = 1
            /\ cachedRemainingMinutes' = op'.arg.bal]_vars

\* The response ended a session whose countdown had not run out.
C7_Witness ==
    /\ Did("RealtimeResponse")
    /\ op.arg.res = "ok" /\ op.arg.bal <= 0
    /\ LiveTimer
    /\ currentRemainingSeconds > 0
    /\ KindIn(out, "final") # {}

\* ---- C8
\* C8: when the finalize response arrives - success, 403, 401 or a network
\* error - or the finalize call is refused for want of a token, the controller
\* is idle and no gateway call is made again.
C8_IdleAfterFinalize ==
    /\ Did("FinalResponse") => (Idle /\ CallsIn(out) = {})
    /\ (\E i \in KindIn(out, "final") : ~out[i].sent)
           => (Idle /\ Cardinality(CallsIn(out)) = 1)

\* The gateway answered the finalize call of a ticking session with a 403.
C8_Witness ==
    /\ Did("FinalResponse")
    /\ op.arg.res = "403"
    /\ Idle
    /\ now > BootTime
    /\ ~isInterviewMode

\* ---- C9
\* C9: while a timer drives a session remainingSeconds is not negative, and a
\* step of that session does not raise it.
C9_NeverNegativeNorRising ==
    [][/\ LiveTimer' => currentRemainingSeconds' >= 0
       /\ (LiveTimer /\ LiveTimer' /\ currentSessionId' = currentSessionId)
              => currentRemainingSeconds' <= currentRemainingSeconds]_vars

\* ---- C10
\* C10: a start request made while a session exists (active, or still being
\* started) makes no gateway call and leaves the session as it is.
C10_StartIsNoOp ==
    [][(op'.name = "StartInterviewSession" /\ currentSessionId # Null)
         => /\ CallsIn(out') = {}
            /\ currentSessionId' = currentSessionId
            /\ sessionStartTime' = sessionStartTime
            /\ sessionTimer' = sessionTimer
            /\ currentRemainingSeconds' = currentRemainingSeconds]_vars

\* ---- C11
\* C11: the finalize call carries status 'expired' when the countdown or the
\* gateway's balance ended the session (the call is made by a tick or on a
\* sync response) and 'completed' when a request of the user ended it.
C11_StatusTellsWhy ==
    \A i \in KindIn(out, "final") :
        out[i].status = (IF op.name \in {"Tick", "RealtimeResponse"}
                         THEN "expired" ELSE "completed")

\* ---- C12
\* C12: right after a logout or a new login the timer is not armed, sessionId
\* and startTime are null, remainingSeconds and startingMinutes are 0 and the
\* cached balance is gone from the store.
C12_CancelAllClears ==
    (Did("Logout") \/ Did("Login"))
        => /\ ~sessionTimer /\ intervals = 0
           /\ timerSessionId = Null
           /\ currentSessionId = Null
           /\ sessionStartTime = NoTime
           /\ currentRemainingSeconds = 0
           /\ sessionStartingMinutes = 0
           /\ cachedRemainingMinutes = Absent

\* A logout came while the overlay was up and the session's timer had ticked.
C12_Witness ==
    /\ Did("Logout")
    /\ mainWindow = "overlay"
    /\ isInterviewMode
    /\ now > BootTime + MaxStall
    /\ currentSessionId = Null
    /\ ~sessionTimer
    /\ cachedRemainingMinutes = Absent

\* ---- C13
\* C13: when the create call fails or returns no identifier the current
\* sessionId stays as it is, when it returns one that identifier becomes the
\* current one; in both cases the start goes on to the overlay window, whose
\* start-up timeout initialises the countdown and arms the timer, bound to
\* the identifier that is current then.
C13_CreateOutcomeAndArming ==
    [][/\ op'.name = "CreateResponse"
            => /\ IF op'.arg.res = "id"
                  THEN currentSessionId' \notin {Null, currentSessionId}
                  ELSE currentSessionId' = currentSessionId
               /\ sessionStartTime' = sessionStartTime
               /\ ~sessionTimer'
               /\ mainWindow # "none"
                     => /\ mainWindow' = "overlay"
                        /\ domReadyPending'
                        /\ isInterviewMode'
       /\ Armed'
            => /\ currentSessionId' = currentSessionId
               /\ timerSessionId' = currentSessionId
               /\ intervals' = 1
               /\ ticks' = 0
               /\ currentRemainingSeconds' = budget'
               /\ lastServerSyncTime' = now']_vars

\* The timer was armed for a session whose create call had failed a moment
\* before: no request is in flight, the session has its identifier and its
\* start time, and the countdown is that of the free-tier default.
C13_Witness ==
    /\ Armed
    /\ LiveTimer
    /\ net = {}
    /\ events = 1
    /\ user = "nouser"
    /\ currentRemainingSeconds = FreeDefaultMinutes * SecondsPerMinute

\* ---- C14
\* The last macrotask handled a gateway error of the balance fetch, the
\* create call, the sync or the sync's fallback: the request was rejected, or
\* was refused for want of a token.
GatewayError(o, p) ==
    \/ /\ o.name \in {"FetchResponse", "CreateResponse", "RealtimeResponse",
                      "UpdateResponse"}
       /\ o.arg.res = "fail"
    \/ \E i \in CallsIn(p) : p[i].kind # "final" /\ ~p[i].sent

\* What may take a session out of the active state: the return of a finalize
\* call, a logout or login, or a finalize call that is refused at once when
\* an end request, a countdown at 0 or a reported balance <= 0 makes it.
EndsSession(o, p) ==
    \/ o.name \in {"FinalResponse", "Logout", "Login"}
    \/ /\ KindIn(p, "final") # {}
       /\ \/ o.name \in {"EndInterviewSession", "Tick"}
          \/ o.name = "RealtimeResponse" /\ o.arg.res = "ok" /\ o.arg.bal <= 0

\* C14: a macrotask that handles a gateway error of the fetch, the create
\* call, the sync or its fallback, and nothing that ends a session, leaves an
\* active session active with its identifier and its timer armed; a session
\* leaves the active state only by what EndsSession lists.
C14_ErrorsNeverEnd ==
    [][/\ (GatewayError(op', out') /\ KindIn(out', "final") = {})
            => /\ SessionActive
                  => (SessionActive' /\ currentSessionId' = currentSessionId
                        /\ sessionStartTime' = sessionStartTime)
               /\ LiveTimer
                  => (LiveTimer'
                        /\ currentRemainingSeconds' \in
                              {currentRemainingSeconds,
                               Max(0, currentRemainingSeconds - 1)})
       /\ (SessionActive /\ ~SessionActive') => EndsSession(op', out')]_vars

\* ---- C15
\* C15: a 'session-timer-update' notification is sent only by a tick, only
\* while the main window exists, is not destroyed and is ready for IPC, and a
\* tick sends at most one.
C15_NotifyOnlyLiveWindow ==
    /\ KindIn(out, "session-timer-update") # {} => (Did("Tick") /\ WindowLive)
    /\ Cardinality(KindIn(out, "session-timer-update")) <= 1

C15_Witness ==
    /\ Did("Tick")
    /\ LiveTimer
    /\ WindowLive
    /\ \E i \in KindIn(out, "session-timer-update") :
           out[i].remainingSeconds = currentRemainingSeconds

\* ---- C16
\* A macrotask of the sync: the tick that calls update-realtime, or the
\* arrival of the response of update-realtime or of the fallback update.
SyncStep(o, p) ==
    \/ o.name \in {"RealtimeResponse", "UpdateResponse"}
    \/ o.name = "Tick" /\ KindIn(p, "realtime") # {}

\* The gateway reported a balance <= 0.
Exhausted(o) == o.name = "RealtimeResponse" /\ o.arg.res = "ok" /\ o.arg.bal <= 0

\* The sync ended in the catch of syncWithServer: a request was rejected, or
\* refused for want of a token.
SyncCaught(o, p) ==
    \/ o.name \in {"RealtimeResponse", "UpdateResponse"} /\ o.arg.res = "fail"
    \/ /\ o.name \in {"Tick", "RealtimeResponse"}
       /\ \E i \in KindIn(p, "realtime") \cup KindIn(p, "update") : ~p[i].sent

RefusedIn(p) == \E i \in KindIn(p, "realtime") \cup KindIn(p, "update") : ~p[i].sent

C17_NoTickAfterEnd ==
    [][(op'.name = "Tick" /\ currentSessionId # Null /\ finalCalls >= 1)
         => /\ currentRemainingSeconds' \in {currentRemainingSeconds, 0}
            /\ ~sessionTimer
            /\ KindIn(out', "session-timer-update") = {}
            /\ KindIn(out', "realtime") = {}]_vars

\* ---- C18
\* C18: at most one update-realtime call of the current session is
\* outstanding at any time: the ticks that follow a sync start no other
\* while its response has not arrived.
C18_OneSyncOutstanding ==
    Cardinality({r \in net : r.kind = "realtime" /\ r.sid = currentSessionId}) <= 1

\* ---- C19
\* C19: a tick of the current session that leaves remainingSeconds at 0 calls
\* endCurrentSession in that same tick, whether or not the window can be
\* sent to.
C19_EndsAtZeroWhateverWindow ==
    (Did("Tick") /\ LiveTimer /\ currentRemainingSeconds = 0 /\ finalCalls = 0)
        => KindIn(out, "final") # {}

\* ---- C20
\* C20: the minutesUsed of every finalize call equals
\* max(1, floor(elapsedSeconds / 60)), elapsedSeconds being the time from
\* startTime to the call; it is never 0.
C20_MinutesUsedFloorOfOne ==
    [][\A i \in KindIn(out', "final") :
           /\ sessionStartTime # NoTime
           /\ out'[i].mins >= 1
           /\ out'[i].mins =
                  (IF now' - sessionStartTime < SecondsPerMinute
                   THEN 1
                   ELSE (now' - sessionStartTime) \div SecondsPerMinute)]_vars

C20_Witness ==
    /\ Did("EndInterviewSession")
    /\ now - sessionStartTime >= LateMinutes * SecondsPerMinute
    /\ \E i \in KindIn(out, "final") :
           out[i].sent /\ out[i].sid = currentSessionId /\ out[i].mins = LateMinutes

\* ---- C21
\* The three writers of the cached balance the claim names: the balance
\* fetch of a start that succeeded for a tier other than free, a sync
\* response that reported a balance, and the clearing of a logout or login.
CacheWrittenAsClaimed(o, tier, old, new) ==
    \/ o.name = "FetchResponse" /\ o.arg.res = "ok" /\ tier # "free"
           /\ new = o.arg.bal
    \/ o.name = "RealtimeResponse" /\ o.arg.res = "ok" /\ new = o.arg.bal
    \/ o.name \in {"Logout", "Login"} /\ new = Absent

\* getAuthToken found a token that does not pass its validation while a
\* gateway call was being made: it deleted the user and the cached balance.
TokenWiped(p, invalid, newUser, new) ==
    /\ invalid
    /\ \E i \in CallsIn(p) : ~p[i].sent
    /\ newUser = "nouser"
    /\ new = Absent

\* C21 as stated: the cached balance changes only by a successful balance
\* fetch of a paid-tier user, a successful sync response, or the clearing of
\* a logout or login, and every value written is the one the gateway reported.
C21_CacheWriters ==
    [][cachedRemainingMinutes' # cachedRemainingMinutes
         => CacheWrittenAsClaimed(op', Tier, cachedRemainingMinutes,
                                  cachedRemainingMinutes')]_vars

\* C21 (amended): the cached balance changes only by those three writers, or
\* by getAuthToken, which deletes it with the stored user when a gateway
\* call finds a token that does not pass validation.
C21_CacheWritersAndTokenCheck ==
    [][cachedRemainingMinutes' # cachedRemainingMinutes
         => \/ CacheWrittenAsClaimed(op', Tier, cachedRemainingMinutes,
                                     cachedRemainingMinutes')
            \/ TokenWiped(out', TokenInvalid(St), user',
                          cachedRemainingMinutes')]_vars

C21_Witness ==
    /\ Did("FetchResponse")
    /\ op.arg.res = "ok"
    /\ op.arg.bal = MaxBalance
    /\ user = "paid"
    /\ cachedRemainingMinutes = MaxBalance
    /\ sessionStartingMinutes = MaxBalance
    /\ budgetFrom = "fetch"

\* ---- C22
\* C22: at most one interval is armed in the event loop at any time, and it
\* is the one this.sessionTimer refers to.
C22_OneTimer ==
    /\ intervals <= 1
    /\ (intervals = 1) <=> sessionTimer

\* A timer is armed anew after an earlier one has been ticking.
C22_Witness ==
    /\ Armed
    /\ intervals = 1
    /\ now > BootTime + MaxStall
    /\ events >= 2

\* ---- C23
\* C23: in a tick the notification comes before the finalize call of the
\* expiry check and before the call of the sync; the tick whose notification
\* shows 0 is the tick that makes the finalize call, and it starts no sync.
C23_TickOrder ==
    Did("Tick")
        => /\ \A i \in KindIn(out, "final") \cup KindIn(out, "realtime") :
                  \E j \in KindIn(out, "session-timer-update") : j < i
           /\ \A j \in KindIn(out, "session-timer-update") :
                  (out[j].remainingSeconds = 0) <=> (KindIn(out, "final") # {})
           /\ KindIn(out, "final") # {} => KindIn(out, "realtime") = {}

C23_Witness ==
    /\ Did("Tick")
    /\ Len(out) = 2
    /\ out[1].kind = "session-timer-update"
    /\ out[1].remainingSeconds = 0
    /\ out[2].kind = "final"
    /\ out[2].sent
    /\ ticks > 0

\* ---- C24
\* The current session runs under the identifier made locally: after the
\* user's first and only request the placeholder of the start is the first
\* identifier, and one issued by the gateway would be the second.
LocalIdentifier == events = 1 /\ currentSessionId = 1 /\ SessionActive

\* C24: the ticks of a session that kept its local identifier, because the
\* create call failed, send no update-realtime request for it.
C24_OfflineSessionNeverSyncs ==
    (Did("Tick") /\ LocalIdentifier)
        => \A i \in KindIn(out, "realtime") : ~out[i].sent

\* ---- C25
\* C25: while a session is not torn down its startTime does not change, and
\* once the timer is armed for the session its identifier does not change.
C25_StartTimeAndIdFixed ==
    [][/\ (sessionStartTime # NoTime /\ sessionStartTime' # NoTime)
            => sessionStartTime' = sessionStartTime
       /\ (LiveTimer /\ currentSessionId' # Null)
            => currentSessionId' = currentSessionId]_vars

\* ---- C26
\* C26: the response that arrives right after a logout or a login, to a sync
\* or a balance fetch that was in flight when it ran, leaves the cached
\* balance cleared.
C26_StaleResponseKeepsCacheCleared ==
    [][(/\ op.name \in {"Logout", "Login"}
        /\ op'.name \in {"RealtimeResponse", "FetchResponse"})
         => cachedRemainingMinutes' = Absent]_vars

\* ---- C27
\* The session fields of two states are the same.
SameSession(a, b) ==
    /\ a.currentSessionId = b.currentSessionId
    /\ a.sessionStartTime = b.sessionStartTime
    /\ a.currentRemainingSeconds = b.currentRemainingSeconds
    /\ a.sessionTimer = b.sessionTimer
    /\ a.timerSessionId = b.timerSessionId
    /\ a.intervals = b.intervals

\* The calls of the last macrotask for which a request went out.
SentIn(p) == {i \in CallsIn(p) : p[i].sent}

\* C27: a call of makeAuthenticatedRequest puts a request on the wire exactly
\* when a token that passes validation is stored; without one the call fails
\* before any request exists, and the failing call itself leaves sessionId,
\* startTime, remainingSeconds and the timer as they were.
C27_NoTokenNoRequest ==
    [][/\ \A i \in CallsIn(out') : out'[i].sent <=> HasToken(St')
       /\ Cardinality(net' \ net) = Cardinality(SentIn(out'))
       /\ ~HasToken(St)
            => \A k \in GatewayKinds :
                  LET a == Refused(St, Req(k, currentSessionId, 1))
                  IN  /\ SameSession(a, St)
                      /\ a.net = net
                      /\ ~a.out[Len(a.out)].sent]_vars

C27_Witness ==
    /\ Did("Tick")
    /\ user = "nouser"
    /\ LiveTimer
    /\ net = {}
    /\ \E i \in KindIn(out, "realtime") : ~out[i].sent
    /\ currentRemainingSeconds = budget - ticks

\* ---- C28
\* The characters of a display string are decimal digits, but for one colon.
Digits(str) == \A k \in DOMAIN str : \E d \in DOMAIN DigitChars : str[k] = DigitChars[d]

\* The number a string of decimal digits denotes.
RECURSIVE ParseInt(_)
ParseInt(str) ==
    IF str = <<>>
    THEN 0
    ELSE ParseInt(SubSeq(str, 1, Len(str) - 1)) * Len(DigitChars)
             + (CHOOSE d \in 0..(Len(DigitChars) - 1) :
                    DigitChars[d + 1] = str[Len(str)])

\* str reads minutes, a colon, and seconds in exactly two digits.
ReadsAs(str, minutes, seconds) ==
    /\ Len(str) >= 4
    /\ str[Len(str) - 2] = ":"
    /\ LET mm == SubSeq(str, 1, Len(str) - 3)
           ss == SubSeq(str, Len(str) - 1, Len(str))
       IN  /\ Digits(mm) /\ Digits(ss)
           /\ ParseInt(mm) = minutes
           /\ ParseInt(ss) = seconds
           /\ mm = NumberToString(minutes)

\* C28: the notification of a tick carries the countdown as the decrement
\* of that tick left it, its whole minutes, and a display that reads those
\* minutes, a colon, and the remaining seconds of the minute in two digits.
C28_NotificationMatchesCountdown ==
    [][op'.name = "Tick"
         => \A j \in KindIn(out', "session-timer-update") :
               LET n == out'[j]
               IN  /\ n.remainingSeconds = Max(0, currentRemainingSeconds - 1)
                   /\ n.remaining * SecondsPerMinute <= n.remainingSeconds
                   /\ n.remainingSeconds < (n.remaining + 1) * SecondsPerMinute
                   /\ ReadsAs(n.display, n.remaining,
                              n.remainingSeconds - n.remaining * SecondsPerMinute)]_vars

C28_Witness ==
    /\ Did("Tick")
    /\ LiveTimer
    /\ \E j \in KindIn(out, "session-timer-update") :
           /\ out[j].remainingSeconds = currentRemainingSeconds
           /\ out[j].remaining = 9
           /\ out[j].display = <<"9", ":", "0", "5">>

\* ---- C29
\* C29: the response to an update-realtime call of a session that is no
\* longer the current one makes no finalize call for the current session and
\* leaves its identifier, startTime, remainingSeconds and timer as they are.
C29_StaleSyncTouchesNothing ==
    [][\A r \in net \ net' :
           (/\ op'.name = "RealtimeResponse"
            /\ SessionActive
            /\ r.sid # currentSessionId)
             => /\ KindIn(out', "final") = {}
                /\ SameSession(St', St)]_vars

\* ---- C30
\* C30: in every state sessionId and startTime are both set or both null.
C30_IdAndStartTimeTogether ==
    (currentSessionId = Null) <=> (sessionStartTime = NoTime)

\* ---- C31
\* C31: the calls between transformToDashboardMode and endCurrentSession
\* never run until the stack overflows, and the macrotask in which a
\* finalize call returns leaves the controller in dashboard mode with no
\* session.
C31_EndTerminates ==
    /\ KindIn(out, "RangeError") = {}
    /\ (Did("FinalResponse") /\ mainWindow # "none")
          => (~isInterviewMode /\ ~SessionActive)

\* ---- C32
\* C32: POST /api/desktop-sessions/update is called by endCurrentSession
\* only: the sync makes no call of it, whatever the response to
\* update-realtime says.
C32_SyncNeverCallsUpdate == KindIn(out, "update") = {}

\* ---- C33
\* C33: a session whose timer is armed has its state cleared only after a
\* finalize call was made for it: no step takes a session with a live timer
\* and no finalize call so far to a state without a session identifier,
\* unless that step makes the call.
C33_TeardownReportsUsage ==
    [][(LiveTimer /\ currentSessionId' = Null)
          => (finalCalls >= 1 \/ KindIn(out', "final") # {})]_vars

\* ---- C34
\* C34: whenever no session is active (no identifier, timer not armed, no
\* start or end in progress) and the main window is live, isInterviewMode is
\* false, so that the next start-interview-session is not ignored.
NothingInProgress ==
    /\ currentSessionId = Null
    /\ sessionStartTime = NoTime
    /\ ~sessionTimer
    /\ net = {}
    /\ ~domReadyPending
    /\ timeouts = 0

C34_ModeFollowsSession ==
    (NothingInProgress /\ mainWindow # "none") => ~isInterviewMode

\* ---- C35
\* C35: when the balance request of a start returns without a usable balance
\* (2xx, but no success flag or no user object), the start goes on with the
\* tier default: sessionStartingMinutes is not a value that the fetch or the
\* fallback of another start wrote.
C35_BudgetIsOwn ==
    (Did("FetchResponse") /\ op.arg.res = "nouse" /\ SessionActive)
       => /\ budgetFrom \notin {"fetch", "fallback"}
          /\ sessionStartingMinutes \in {0, IF Tier = "free"
                                              THEN FreeDefaultMinutes
                                              ELSE PaidDefaultMinutes}

\* ---- C36
\* C36: the tier derived from the stored token is 'free' when there is no
\* token, when it does not decode or when it carries no claim, and the
\* token's claim otherwise; and when the start of a session fell back to a
\* tier default, the countdown of that session is initialised with the tier
\* that the fallback used.
C36_OneTierPerSession ==
    /\ Tier = (IF user = "paid" THEN "paid" ELSE "free")
    /\ (Armed /\ fallbackTier # "none" /\ currentSessionId # Null)
          => Tier = fallbackTier

=============================================================================
